---- MODULE Spec2Model ----
(***************************************************************************)
(* Model of the Worker in src/index.ts: the fetch dispatcher and the       *)
(* handleChatRequest sub-routine, together with the two injected           *)
(* collaborators (env.ASSETS and env.AI) seen as nondeterministic          *)
(* environments.  Each in-flight request is one invocation of fetch; its   *)
(* suspension points (request.json(), env.AI.run, env.ASSETS.fetch) are    *)
(* the boundaries between the actions.                                     *)
(***************************************************************************)
EXTENDS Integers, Sequences, FiniteSets, TLC

(***************************************************************************)
(* Bounds of the model.                                                    *)
(***************************************************************************)
\* number of invocation slots the runtime may hold at once
NumReq == 2
\* longest `messages` array a request body carries under Spec
MaxLen == 2
\* longest `messages` array a request body carries under SpecConc
ConcMaxLen == 1

Reqs == 1 .. NumReq

(***************************************************************************)
(* Program constants.                                                      *)
(***************************************************************************)
MODEL_ID == "@cf/meta/llama-3.3-70b-instruct-fp8-fast"

\* the text of the prompt is opaque to the code; only its identity matters
SYSTEM_PROMPT == "You are Jane, Paul Buchman's personal assistant. Do not deviate from this role. ..."

MAX_TOKENS == 1024

(***************************************************************************)
(* JSON values.  Every value is a record of the same shape so that any two *)
(* of them can be compared.                                                *)
(*   element  : one entry of a `messages` array                            *)
(*   messages : the value found under the key `messages`                   *)
(*   body     : the request body, as request.json() sees it                *)
(***************************************************************************)
Msg(role, content) == [kind |-> "object", role |-> role, content |-> content]

\* an object without a `role` property
RolelessElem == [kind |-> "object", role |-> "undefined", content |-> "hi"]

\* the JSON literal null as an array element
NullElem == [kind |-> "null", role |-> "undefined", content |-> ""]

\* a JSON number as an array element
NumberElem == [kind |-> "number", role |-> "undefined", content |-> ""]

Elements ==
  { Msg("system", "custom"), Msg("system", SYSTEM_PROMPT),
    Msg("user", "hi"), Msg("assistant", "ok"),
    RolelessElem, NullElem, NumberElem }

ConcElements == { Msg("system", "custom"), Msg("user", "hi"), Msg("user", "yo") }

SeqsUpTo(S, n) == UNION { [1 .. k -> S] : k \in 0 .. n }

ArrayVal(items) == [kind |-> "array", items |-> items]

ScalarVal(kind) == [kind |-> kind, items |-> <<>>]

\* kinds of a `messages` value that are not arrays ("absent": no such key)
NonArrayKinds == {"absent", "null", "number", "string", "object"}

MessagesVals(elems, n) ==
  { ArrayVal(s) : s \in SeqsUpTo(elems, n) } \cup { ScalarVal(k) : k \in NonArrayKinds }

Body(kind, messages) == [kind |-> kind, messages |-> messages]

\* bodies that are not JSON objects; "invalid" is text that is not JSON
NonObjectBodyKinds == {"invalid", "null", "number", "string", "array"}

Bodies(elems, n) ==
  { Body("object", m) : m \in MessagesVals(elems, n) }
    \cup { Body(k, ScalarVal("absent")) : k \in NonObjectBodyKinds }

(***************************************************************************)
(* Requests.  A URL is the sequence of tokens after the origin; "/" and    *)
(* "?" are tokens of their own.                                            *)
(***************************************************************************)
Methods == {"GET", "POST", "DELETE"}

Urls ==
  { <<"/">>,
    <<"/", "index.html">>,
    <<"/", "api">>,
    <<"/", "apix", "/", "chat">>,
    <<"/", "API", "/", "chat">>,
    <<"/", "api", "/">>,
    <<"/", "api", "/", "unknown">>,
    <<"/", "api", "/", "chat">>,
    <<"/", "api", "/", "chat", "/">>,
    <<"/", "api", "/", "chat", "?", "api">>,
    <<"/", "?", "/", "api", "/", "chat">> }


Request(method, url, body) == [method |-> method, url |-> url, body |-> body]

Requests ==
  { Request(m, u, b) : m \in Methods, u \in Urls, b \in Bodies(Elements, MaxLen) }

\* the smaller population of requests used when invocations interleave
ConcBodies ==
  { Body("object", ArrayVal(s)) : s \in SeqsUpTo(ConcElements, ConcMaxLen) }
    \cup { Body("object", ScalarVal("absent")), Body("invalid", ScalarVal("absent")) }

ConcRequests ==
  { Request("POST", <<"/", "api", "/", "chat">>, b) : b \in ConcBodies }
    \cup { Request("GET", <<"/">>, Body("invalid", ScalarVal("absent"))),
           Request("GET", <<"/", "api", "/", "chat">>, Body("invalid", ScalarVal("absent"))),
           Request("POST", <<"/", "api", "/", "unknown">>, Body("object", ScalarVal("absent"))) }

\* value of an invocation slot that holds no request
NoRequest == Request("", <<>>, Body("invalid", ScalarVal("absent")))

(***************************************************************************)
(* Responses.  `src` names the component that constructed the object.      *)
(***************************************************************************)
Response(status, body, ctype, src) ==
  [status |-> status, body |-> body, ctype |-> ctype, src |-> src]

NoResponse == Response(0, "", "", "none")

ProviderResponses ==
  { Response(200, "sse-stream", "text/event-stream", "provider"),
    Response(429, "rate-limited", "application/json", "provider") }

AssetResponses ==
  { Response(200, "<html>", "text/html", "assets"),
    Response(404, "asset-missing", "text/plain", "assets") }

(***************************************************************************)
(* Completion records: how a step of the code ended.                       *)
(***************************************************************************)
Returned(v) == [kind |-> "return", val |-> v]

Threw(v) == [kind |-> "throw", val |-> v]

(***************************************************************************)
(* fetch: routing on url.pathname and request.method.                      *)
(***************************************************************************)
RECURSIVE TakeUntilQuery(_)
TakeUntilQuery(url) ==
  IF url = <<>> \/ Head(url) = "?" THEN <<>>
  ELSE <<Head(url)>> \o TakeUntilQuery(Tail(url))

\* new URL(request.url).pathname: the URL up to the query string
Pathname(url) == TakeUntilQuery(url)

\* String.prototype.startsWith
StartsWith(s, prefix) ==
  /\ Len(s) >= Len(prefix)
  /\ SubSeq(s, 1, Len(prefix)) = prefix

\* variant: only the root path is an asset path
IsAssetPathRootOnly(pathname) == pathname = <<"/">>

\* url.pathname === "/" || !url.pathname.startsWith("/api/")
IsAssetPath(pathname) ==
  pathname = <<"/">> \/ ~StartsWith(pathname, <<"/", "api", "/">>)

\* variant: startsWith in place of the strict comparison
IsChatPathPrefix(pathname) == StartsWith(pathname, <<"/", "api", "/", "chat">>)

\* url.pathname === "/api/chat"
IsChatPath(pathname) == pathname = <<"/", "api", "/", "chat">>

\* variant: every method but GET is taken for POST
IsPostNotGet(method) == method # "GET"

\* request.method === "POST"
IsPost(method) == method = "POST"

\* a Response built from a string carries the default text content type
MethodNotAllowed ==
  Response(405, "Method not allowed", "text/plain;charset=UTF-8", "worker")

NotFound == Response(404, "Not found", "text/plain;charset=UTF-8", "worker")

\* the branch of fetch a request takes
Route(req) ==
  LET pathname == Pathname(req.url) IN
  IF IsAssetPath(pathname) THEN "assets"
  ELSE IF IsChatPath(pathname)
       THEN IF IsPost(req.method) THEN "chat" ELSE "405"
       ELSE "404"

(***************************************************************************)
(* handleChatRequest: the synchronous stretch between the resolution of    *)
(* request.json() and the call of env.AI.run.                              *)
(***************************************************************************)
\* await request.json(): rejects with a SyntaxError on text that is not JSON
ParseJson(body) ==
  IF body.kind = "invalid" THEN Threw(body) ELSE Returned(body)

\* const { messages = [] } = json: a TypeError on null; the default applies
\* exactly when the property reads as undefined
Destructure(json) ==
  IF json.kind = "null" THEN Threw(json.messages)
  ELSE IF json.kind = "object" /\ json.messages.kind # "absent"
       THEN Returned(json.messages)
       ELSE Returned(ArrayVal(<<>>))

\* msg.role: a TypeError on null, undefined on a value without the property
RECURSIVE SomeSystemFrom(_, _)
SomeSystemFrom(items, i) ==
  IF i > Len(items) THEN "false"
  ELSE IF items[i].kind = "null" THEN "throw"
  ELSE IF items[i].kind = "object" /\ items[i].role = "system" THEN "true"
  ELSE SomeSystemFrom(items, i + 1)

\* messages.some((msg) => msg.role === "system")
SomeSystem(items) == SomeSystemFrom(items, 1)

SystemMessage == Msg("system", SYSTEM_PROMPT)

\* variant: push in place of unshift
GuardPush(mv) ==
  IF mv.kind # "array" THEN Threw(mv)
  ELSE LET some == SomeSystem(mv.items) IN
       IF some = "throw" THEN Threw(mv)
       ELSE IF some = "false"
            THEN Returned(ArrayVal(Append(mv.items, SystemMessage)))
            ELSE Returned(mv)

\* variant: only messages[0] is tested for the system role
GuardFirstOnly(mv) ==
  IF mv.kind # "array" THEN Threw(mv)
  ELSE IF mv.items # <<>> /\ mv.items[1].kind = "null" THEN Threw(mv)
  ELSE IF mv.items # <<>> /\ mv.items[1].kind = "object" /\ mv.items[1].role = "system"
       THEN Returned(mv)
       ELSE Returned(ArrayVal(<<SystemMessage>> \o mv.items))

\* if (!messages.some(...)) messages.unshift({role: "system", ...});
\* `some` is not a function of a value that is not an array
ApplySystemPromptGuard(mv) ==
  IF mv.kind # "array" THEN Threw(mv)
  ELSE LET some == SomeSystem(mv.items) IN
       IF some = "throw" THEN Threw(mv)
       ELSE IF some = "false"
            THEN Returned(ArrayVal(<<SystemMessage>> \o mv.items))
            ELSE Returned(mv)

\* lines 114-121 as one computation: the `messages` handed to env.AI.run, or
\* the exception that reaches the catch clause
PrepareMessages(body) ==
  LET json == ParseJson(body) IN
  IF json.kind = "throw" THEN Threw(ScalarVal("absent"))
  ELSE LET d == Destructure(json.val) IN
       IF d.kind = "throw" THEN Threw(ScalarVal("absent"))
       ELSE ApplySystemPromptGuard(d.val)

\* the first two arguments of env.AI.run, and the option of the third
RunArgs(messages) ==
  [model |-> MODEL_ID, messages |-> messages, max_tokens |-> MAX_TOKENS,
   returnRawResponse |-> TRUE]

ErrorResponse ==
  Response(500, "{\"error\":\"Failed to process request\"}", "application/json", "worker")

\* variant: the catch clause rethrows
ChatRethrow(error) == Threw(NoResponse)

\* catch (error) { console.error(...); return new Response(...500...) }
ChatCatch(error) == Returned(ErrorResponse)

\* variant: the body is wrapped in a new Response
ReturnRewrapped(response) ==
  Returned(Response(200, response.body, response.ctype, "worker"))

\* return response;
ReturnResponse(response) == Returned(response)

(***************************************************************************)
(* State.  Every variable is indexed by the invocation slot.               *)
(*   pc         where the invocation is suspended                          *)
(*   request    the Request the invocation was given                       *)
(*   messages   the local `messages` of handleChatRequest                  *)
(*   aiCalls    the arguments of each env.AI.run call the invocation made  *)
(*   assetCalls the requests the invocation passed to env.ASSETS.fetch     *)
(*   chatCalls  how many times the invocation entered handleChatRequest    *)
(*   provided   the response a collaborator resolved with                  *)
(*   result     how fetch settled: the Response, or the exception          *)
(***************************************************************************)
VARIABLES pc, request, messages, aiCalls, assetCalls, chatCalls, provided, result

vars == <<pc, request, messages, aiCalls, assetCalls, chatCalls, provided, result>>

Pending == [kind |-> "pending", val |-> NoResponse]

NoMessages == ScalarVal("absent")

Init ==
  /\ pc = [r \in Reqs |-> "idle"]
  /\ request = [r \in Reqs |-> NoRequest]
  /\ messages = [r \in Reqs |-> NoMessages]
  /\ aiCalls = [r \in Reqs |-> <<>>]
  /\ assetCalls = [r \in Reqs |-> <<>>]
  /\ chatCalls = [r \in Reqs |-> 0]
  /\ provided = [r \in Reqs |-> NoResponse]
  /\ result = [r \in Reqs |-> Pending]

\* variant: `messages` is a module-level variable, shared by the invocations
BindShared(store, r, val) == [q \in DOMAIN store |-> val]

\* a `const` of the invocation: each invocation has its own
BindLocal(store, r, val) == [store EXCEPT ![r] = val]

\* variant: the call is made twice
RecordRunTwice(calls, args) == Append(Append(calls, args), args)

\* env.AI.run(MODEL_ID, {...}, {...}) is called
RecordRun(calls, args) == Append(calls, args)

\* fetch up to its first suspension point, or to its return
Receive(r, req) ==
  /\ pc[r] = "idle"
  /\ request' = [request EXCEPT ![r] = req]
  /\ LET route == Route(req) IN
     /\ pc' = [pc EXCEPT ![r] = CASE route = "assets" -> "assets"
                                  [] route = "chat" -> "parsing"
                                  [] OTHER -> "done"]
     /\ assetCalls' = [assetCalls EXCEPT ![r] =
                         IF route = "assets" THEN Append(@, req) ELSE @]
     /\ chatCalls' = [chatCalls EXCEPT ![r] = IF route = "chat" THEN @ + 1 ELSE @]
     /\ result' = [result EXCEPT ![r] = CASE route = "405" -> Returned(MethodNotAllowed)
                                          [] route = "404" -> Returned(NotFound)
                                          [] OTHER -> @]
  /\ UNCHANGED <<messages, aiCalls, provided>>

\* request.json() settles and parsing, destructuring or the guard throws:
\* control passes to the catch clause
BodyRejected(r) ==
  /\ pc[r] = "parsing"
  /\ LET m == PrepareMessages(request[r].body) IN
     /\ m.kind = "throw"
     /\ result' = [result EXCEPT ![r] = ChatCatch(m.val)]
  /\ pc' = [pc EXCEPT ![r] = "done"]
  /\ UNCHANGED <<request, messages, aiCalls, assetCalls, chatCalls, provided>>

\* request.json() settles, the guard runs and env.AI.run is called
CallProvider(r) ==
  /\ pc[r] = "parsing"
  /\ LET m == PrepareMessages(request[r].body) IN
     /\ m.kind = "return"
     /\ messages' = BindLocal(messages, r, m.val)
  /\ aiCalls' = [aiCalls EXCEPT ![r] = RecordRun(@, RunArgs(messages'[r]))]
  /\ pc' = [pc EXCEPT ![r] = "calling"]
  /\ UNCHANGED <<request, assetCalls, chatCalls, provided, result>>

\* env.AI.run resolves with a Response
ProviderResolve(r, response) ==
  /\ pc[r] = "calling"
  /\ provided' = [provided EXCEPT ![r] = response]
  /\ result' = [result EXCEPT ![r] = ReturnResponse(response)]
  /\ pc' = [pc EXCEPT ![r] = "done"]
  /\ UNCHANGED <<request, messages, aiCalls, assetCalls, chatCalls>>

\* env.AI.run throws or its promise rejects: the awaited call is inside try
ProviderFail(r) ==
  /\ pc[r] = "calling"
  /\ result' = [result EXCEPT ![r] = ChatCatch(NoResponse)]
  /\ pc' = [pc EXCEPT ![r] = "done"]
  /\ UNCHANGED <<request, messages, aiCalls, assetCalls, chatCalls, provided>>

\* env.ASSETS.fetch resolves with a Response, which fetch returns
AssetResolve(r, response) ==
  /\ pc[r] = "assets"
  /\ provided' = [provided EXCEPT ![r] = response]
  /\ result' = [result EXCEPT ![r] = Returned(response)]
  /\ pc' = [pc EXCEPT ![r] = "done"]
  /\ UNCHANGED <<request, messages, aiCalls, assetCalls, chatCalls>>

\* env.ASSETS.fetch throws or its promise rejects: nothing in fetch catches it
AssetFail(r) ==
  /\ pc[r] = "assets"
  /\ result' = [result EXCEPT ![r] = Threw(NoResponse)]
  /\ pc' = [pc EXCEPT ![r] = "done"]
  /\ UNCHANGED <<request, messages, aiCalls, assetCalls, chatCalls, provided>>

\* the runtime has delivered the outcome; the invocation and its locals are gone
Release(r) ==
  /\ pc[r] = "done"
  /\ pc' = [pc EXCEPT ![r] = "idle"]
  /\ request' = [request EXCEPT ![r] = NoRequest]
  /\ messages' = [messages EXCEPT ![r] = NoMessages]
  /\ aiCalls' = [aiCalls EXCEPT ![r] = <<>>]
  /\ assetCalls' = [assetCalls EXCEPT ![r] = <<>>]
  /\ chatCalls' = [chatCalls EXCEPT ![r] = 0]
  /\ provided' = [provided EXCEPT ![r] = NoResponse]
  /\ result' = [result EXCEPT ![r] = Pending]

AllIdle == \A q \in Reqs : pc[q] = "idle"

Progress ==
  \/ \E r \in Reqs : BodyRejected(r)
  \/ \E r \in Reqs : CallProvider(r)
  \/ \E r \in Reqs, response \in ProviderResponses : ProviderResolve(r, response)
  \/ \E r \in Reqs : ProviderFail(r)
  \/ \E r \in Reqs, response \in AssetResponses : AssetResolve(r, response)
  \/ \E r \in Reqs : AssetFail(r)
  \/ \E r \in Reqs : Release(r)

\* the runtime hands a request to a fresh invocation, one request at a time,
\* over the whole population of requests
Arrive == AllIdle /\ \E r \in Reqs, req \in Requests : Receive(r, req)

Next == Arrive \/ Progress

Spec == Init /\ [][Next]_vars

\* invocations interleave at their suspension points
NextConc ==
  \/ \E r \in Reqs, req \in ConcRequests : Receive(r, req)
  \/ Progress

SpecConc == Init /\ [][NextConc]_vars

(***************************************************************************)
(* Vocabulary of the properties, stated on the request itself and not      *)
(* through the operators of the handler.                                   *)
(***************************************************************************)
Held(r) == request[r] # NoRequest

PathOf(r) == Pathname(request[r].url)

UnderApi(path) ==
  Len(path) >= 3 /\ path[1] = "/" /\ path[2] = "api" /\ path[3] = "/"

OnAssetPath(r) == Held(r) /\ (PathOf(r) = <<"/">> \/ ~UnderApi(PathOf(r)))

OnChatPath(r) == Held(r) /\ PathOf(r) = <<"/", "api", "/", "chat">>

ChatRequest(r) == OnChatPath(r) /\ request[r].method = "POST"

\* the body parses to a value from which a messages sequence is read
HasSequence(body) ==
  /\ body.kind \notin {"invalid", "null"}
  /\ body.kind = "object" => body.messages.kind \in {"array", "absent"}

\* the parsed messages sequence (empty when the key is missing)
ParsedItems(body) ==
  IF body.kind = "object" /\ body.messages.kind = "array"
  THEN body.messages.items ELSE <<>>

IsSystemElem(e) == e.kind = "object" /\ e.role = "system"

ContainsSystem(items) == \E i \in 1 .. Len(items) : IsSystemElem(items[i])

\* a null element is met before any system message: reading its role throws
NullBeforeSystem(items) ==
  \E i \in 1 .. Len(items) :
    /\ items[i].kind = "null"
    /\ \A j \in 1 .. (i - 1) : ~IsSystemElem(items[j])

\* parsing the body, destructuring it or applying the guard raises
BodyRaises(body) == ~HasSequence(body) \/ NullBeforeSystem(ParsedItems(body))

PastGuard(r) == pc[r] \in {"calling", "done"}

ProviderFailed(r) == pc[r] = "done" /\ Len(aiCalls[r]) >= 1 /\ provided[r] = NoResponse

SentMessages(r) == aiCalls[r][1].messages

\* C1: a chat request whose parsed messages hold no system message (the empty
\* default included) reaches the provider, when it reaches it, with exactly
\* one system message carrying SYSTEM_PROMPT at index 0 followed by the
\* original messages in their order; and it does reach it, once, when no
\* element is null.
C1_SystemPromptPrepended ==
  \A r \in Reqs :
    (ChatRequest(r) /\ HasSequence(request[r].body)
       /\ ~ContainsSystem(ParsedItems(request[r].body)))
    => LET items == ParsedItems(request[r].body) IN
       /\ Len(aiCalls[r]) >= 1 =>
            SentMessages(r) = ArrayVal(<<Msg("system", SYSTEM_PROMPT)>> \o items)
       /\ (PastGuard(r) /\ ~NullBeforeSystem(items)) => Len(aiCalls[r]) = 1

C1_Witness ==
  \E r \in Reqs :
    /\ ChatRequest(r) /\ pc[r] = "calling"
    /\ request[r].body.kind = "object" /\ request[r].body.messages.kind = "array"
    /\ Len(ParsedItems(request[r].body)) >= 2
    /\ ~ContainsSystem(ParsedItems(request[r].body))
    /\ SentMessages(r).items[1] = Msg("system", SYSTEM_PROMPT)
    /\ Len(SentMessages(r).items) = Len(ParsedItems(request[r].body)) + 1

\* C2: a chat request whose parsed messages already hold a system message, at
\* any position, reaches the provider with its sequence unchanged; and the
\* guard applied to any sequence that was sent returns that sequence.
C2_ExistingSystemPassedThrough ==
  \A r \in Reqs :
    /\ (ChatRequest(r) /\ HasSequence(request[r].body)
          /\ ContainsSystem(ParsedItems(request[r].body)))
       => LET items == ParsedItems(request[r].body) IN
          /\ Len(aiCalls[r]) >= 1 => SentMessages(r) = ArrayVal(items)
          /\ (PastGuard(r) /\ ~NullBeforeSystem(items)) => Len(aiCalls[r]) = 1
    /\ Len(aiCalls[r]) >= 1 =>
         ApplySystemPromptGuard(SentMessages(r)) = Returned(SentMessages(r))

C2_Witness ==
  \E r \in Reqs :
    /\ ChatRequest(r) /\ pc[r] = "calling"
    /\ Len(ParsedItems(request[r].body)) = 2
    /\ ~IsSystemElem(ParsedItems(request[r].body)[1])
    /\ IsSystemElem(ParsedItems(request[r].body)[2])
    /\ SentMessages(r) = request[r].body.messages

\* C3: a request whose path is "/" or does not start with "/api/", whatever
\* its method, is passed as it is to the asset collaborator, once; the chat
\* handler and the provider are not invoked; the response the collaborator
\* gives is the response returned.
C3_AssetPathsForwarded ==
  \A r \in Reqs :
    OnAssetPath(r) =>
      /\ assetCalls[r] = <<request[r]>>
      /\ chatCalls[r] = 0
      /\ aiCalls[r] = <<>>
      /\ result[r].kind = "return" => result[r].val = provided[r]
      /\ provided[r] # NoResponse =>
           /\ provided[r].src = "assets"
           /\ result[r] = Returned(provided[r])

C3_Witness ==
  \E r \in Reqs :
    /\ OnAssetPath(r) /\ pc[r] = "done"
    /\ PathOf(r) = <<"/", "api">>
    /\ request[r].method = "POST"
    /\ provided[r].status = 404
    /\ result[r] = Returned(provided[r])

\* C4: when handling a chat request raises (text that is not JSON, a body
\* or a `messages` value of the wrong shape, a provider call that throws or
\* rejects), the outcome is the 500 response with the fixed JSON body and
\* content type, and no chat request ends in an exception.
C4_ChatErrorsBecome500 ==
  \A r \in Reqs :
    ChatRequest(r) =>
      /\ result[r].kind # "throw"
      /\ (pc[r] = "done" /\ (BodyRaises(request[r].body) \/ ProviderFailed(r)))
         => /\ result[r].kind = "return"
            /\ result[r].val.status = 500
            /\ result[r].val.body = "{\"error\":\"Failed to process request\"}"
            /\ result[r].val.ctype = "application/json"

C4_Witness ==
  \E r \in Reqs :
    /\ ChatRequest(r) /\ ProviderFailed(r)
    /\ result[r].kind = "return" /\ result[r].val.status = 500

\* C5 as stated: no request ends in an exception escaping fetch.
C5_NoExceptionEscapes ==
  \A r \in Reqs : result[r].kind # "throw"

\* C5 amended: an exception escapes fetch only on an asset path, when the
\* asset collaborator itself threw; every other request that has finished
\* has a response.
C5_OnlyAssetFailureEscapes ==
  \A r \in Reqs :
    /\ result[r].kind = "throw" =>
         /\ OnAssetPath(r)
         /\ assetCalls[r] = <<request[r]>>
         /\ provided[r] = NoResponse
    /\ (Held(r) /\ pc[r] = "done" /\ ~OnAssetPath(r)) =>
         /\ result[r].kind = "return"
         /\ result[r].val # NoResponse

C5_Witness ==
  \E r \in Reqs :
    /\ pc[r] = "done" /\ OnAssetPath(r)
    /\ assetCalls[r] = <<request[r]>>
    /\ result[r].kind = "throw"

\* C6 as stated: every chat request makes exactly one provider call.
C6_ExactlyOneCall ==
  \A r \in Reqs :
    (ChatRequest(r) /\ pc[r] = "done") => Len(aiCalls[r]) = 1

\* C6 amended: a chat request makes at most one provider call; once past
\* parsing and the guard it has made exactly one when neither raised, and
\* none when one of them raised; a failed call is not repeated.
C6_AtMostOneCall ==
  \A r \in Reqs :
    /\ Len(aiCalls[r]) <= 1
    /\ (ChatRequest(r) /\ PastGuard(r)) =>
         Len(aiCalls[r]) = (IF BodyRaises(request[r].body) THEN 0 ELSE 1)
    /\ (ChatRequest(r) /\ pc[r] = "parsing") => Len(aiCalls[r]) = 0

C6_Witness ==
  \E r \in Reqs :
    /\ ChatRequest(r) /\ ProviderFailed(r)
    /\ Len(aiCalls[r]) = 1

\* C7: when parsing and the provider call both complete, the response
\* returned is the provider's own response object, whatever its status.
C7_ProviderResponsePassedThrough ==
  \A r \in Reqs :
    (ChatRequest(r) /\ pc[r] = "done" /\ Len(aiCalls[r]) >= 1 /\ ~ProviderFailed(r))
    => /\ result[r] = Returned(provided[r])
       /\ provided[r].src = "provider"

C7_Witness ==
  \E r \in Reqs :
    /\ ChatRequest(r) /\ pc[r] = "done"
    /\ provided[r].status = 429
    /\ result[r].val = provided[r]

\* C8: a request for "/api/chat" with a method other than POST gets 405
\* "Method not allowed"; no chat handler, provider or asset call is made.
C8_MethodNotAllowed ==
  \A r \in Reqs :
    (OnChatPath(r) /\ request[r].method # "POST") =>
      /\ pc[r] = "done"
      /\ result[r].kind = "return"
      /\ result[r].val.status = 405
      /\ result[r].val.body = "Method not allowed"
      /\ chatCalls[r] = 0 /\ aiCalls[r] = <<>> /\ assetCalls[r] = <<>>

C8_Witness ==
  \E r \in Reqs :
    /\ OnChatPath(r) /\ request[r].method = "DELETE"
    /\ result[r].val.status = 405

\* C9: a request whose path starts with "/api/" and is not "/api/chat",
\* whatever its method, gets 404 "Not found"; no chat handler, provider or
\* asset call is made.
C9_UnknownApiPathNotFound ==
  \A r \in Reqs :
    (Held(r) /\ UnderApi(PathOf(r)) /\ PathOf(r) # <<"/", "api", "/", "chat">>) =>
      /\ pc[r] = "done"
      /\ result[r].kind = "return"
      /\ result[r].val.status = 404
      /\ result[r].val.body = "Not found"
      /\ chatCalls[r] = 0 /\ aiCalls[r] = <<>> /\ assetCalls[r] = <<>>

C9_Witness ==
  \E r \in Reqs :
    /\ Held(r) /\ PathOf(r) = <<"/", "api", "/", "chat", "/">>
    /\ request[r].method = "POST"
    /\ result[r].val.status = 404

\* what a request's own body makes the handler send
OwnMessages(body) ==
  IF ContainsSystem(ParsedItems(body))
  THEN ArrayVal(ParsedItems(body))
  ELSE ArrayVal(<<Msg("system", SYSTEM_PROMPT)>> \o ParsedItems(body))

\* C10: with invocations interleaved at their suspension points, the local
\* messages of an invocation, the messages it sends and its outcome are
\* those of its own request and of its own collaborator's answer, whatever
\* the other invocations hold.
C10_RequestsIsolated ==
  \A r \in Reqs :
    /\ pc[r] = "calling" => messages[r] = OwnMessages(request[r].body)
    /\ messages[r] # NoMessages => messages[r] = OwnMessages(request[r].body)
    /\ Len(aiCalls[r]) >= 1 => SentMessages(r) = OwnMessages(request[r].body)
    /\ (pc[r] = "done" /\ provided[r] # NoResponse) => result[r] = Returned(provided[r])
    /\ (pc[r] # "done") => result[r] = Pending

C10_Witness ==
  \E r, q \in Reqs :
    /\ r # q
    /\ pc[r] = "calling" /\ pc[q] = "calling"
    /\ ~ContainsSystem(ParsedItems(request[r].body))
    /\ ContainsSystem(ParsedItems(request[q].body))
    /\ SentMessages(r).items = <<Msg("system", SYSTEM_PROMPT), Msg("user", "hi")>>
    /\ SentMessages(q).items = <<Msg("system", "custom")>>

====
